---- MODULE Spec2Model ----
(***************************************************************************)
(* Model of gofeatureflag_python_provider/provider.py: the provider's      *)
(* five resolve_*_details operations and the generic resolver they         *)
(* delegate to.  One behaviour fixes what the relay proxy answers (remote) *)
(* and then performs any number of resolutions against it.                 *)
(*                                                                         *)
(* JSON / Python values are records [k |-> kind, v |-> payload]:           *)
(*   bool  v in {0,1}          int   v = the integer                       *)
(*   float v = tenths (30 is 3.0, 5 is 0.5)                                *)
(*   str, dict, list  v = an identifier of the content                     *)
(*   dictx = a dict holding a value json cannot encode (default only)      *)
(*   null, missing, none  v = 0                                            *)
(***************************************************************************)
EXTENDS Integers, Sequences, FiniteSets, TLC

VARIABLES options, http_client, remote, call, requests, outcome

vars == <<options, http_client, remote, call, requests, outcome>>

\* Largest numeric payload / content identifier drawn for values.
MaxNum == 1

HTTP_NOT_FOUND == 404
HTTP_BAD_REQUEST == 400

FlagKeys == {"dark-mode", "max-items"}
NoKey == "<no key>"
Unset == "<unset>"

Val(k, v) == [k |-> k, v |-> v]
NoValue == Val("none", 0)

Bools == {Val("bool", b) : b \in {0, 1}}
Ints == {Val("int", n) : n \in 0..MaxNum}
Floats == {Val("float", 10 * n + f) : n \in 0..MaxNum, f \in {0, 5}}
Strs == {Val("str", n) : n \in 0..MaxNum}
Dicts == {Val("dict", n) : n \in 0..MaxNum}
Lists == {Val("list", n) : n \in 0..MaxNum}

\* The python kinds a declared type admits.
KindsOf(original_type) ==
    CASE original_type = "bool" -> {"bool"}
      [] original_type = "str" -> {"str"}
      [] original_type = "int" -> {"int"}
      [] original_type = "float" -> {"float"}
      [] original_type = "object" -> {"dict", "dictx", "list"}
      [] OTHER -> {}

\* What the "value" field of a response body can hold.
RawValues ==
    Bools \cup Ints \cup Floats \cup Strs \cup Dicts \cup Lists
        \cup {Val("null", 0), Val("missing", 0)}

Reasons == {"TARGETING_MATCH", "DISABLED"}
ErrorCodes == {Unset, "FLAG_NOT_FOUND"}
Variations == {Unset, "v1"}

Malformed ==
    [wellformed |-> FALSE, value |-> Val("missing", 0), reason |-> Unset,
     errorCode |-> Unset, variationType |-> Unset]

Bodies ==
    [wellformed : {TRUE}, value : RawValues, reason : Reasons,
     errorCode : ErrorCodes, variationType : Variations] \cup {Malformed}

Statuses == {200, 302, 400, 404, 500}

\* What the relay proxy does with a request: answer, or fail at transport level.
Remotes ==
    [transport : {"ok"}, status : Statuses, data : Bodies]
        \cup {[transport |-> "error", status |-> 0, data |-> Malformed]}

NoContext == [targeting_key |-> Unset]
Contexts == {NoContext, [targeting_key |-> "user-123"]}


(***************************************************************************)
(* Results of a resolution: a FlagEvaluationDetails, or a raised exception *)
(* with the class, the message template, the flag key formatted into the   *)
(* message (NoKey when the message has no placeholder for it) and the text *)
(* of the underlying cause formatted into it (Unset when there is none).   *)
(***************************************************************************)
Blank ==
    [tag |-> "none", exc |-> Unset, flag_key |-> NoKey, value |-> NoValue,
     variant |-> Unset, reason |-> Unset, text |-> Unset, msg_key |-> NoKey,
     cause |-> Unset]

FlagEvaluationDetails(flag_key, value, variant, reason) ==
    [Blank EXCEPT !.tag = "details", !.flag_key = flag_key, !.value = value,
                  !.variant = variant, !.reason = reason]

Raise(exc, text, msg_key, cause) ==
    [Blank EXCEPT !.tag = "raised", !.exc = exc, !.text = text,
                  !.msg_key = msg_key, !.cause = cause]

OpenFeatureErrors == {"FlagNotFoundError", "TypeMismatchError", "GeneralError"}

FlagNotFoundError(flag_key) ==
    Raise("FlagNotFoundError", "flag {} was not found in your configuration",
          flag_key, Unset)

TypeMismatchError(flag_key) ==
    Raise("TypeMismatchError", "unexpected type for flag {}", flag_key, Unset)

\* Context Translator: no context gives the anonymous user with an empty key.
user_from_evaluation_context(ctx) ==
    IF ctx = NoContext
    THEN [key |-> "", anonymous |-> TRUE]
    ELSE [key |-> ctx.targeting_key, anonymous |-> FALSE]

\* Request Builder: pure assembly, the default is not validated.
RequestFlagEvaluation(user, default_value) ==
    [user |-> user, defaultValue |-> default_value]

\* goff_request.json(): a value json cannot encode raises TypeError.
JsonEncodable(goff_request) == goff_request.defaultValue.k # "dictx"

\* Lines 131-143: everything evaluated before the client's request() is entered.
BuildRequest(flag_key, default_value, evaluation_context) ==
    LET goff_user == user_from_evaluation_context(evaluation_context)
        goff_request == RequestFlagEvaluation(goff_user, default_value)
    IN  IF JsonEncodable(goff_request)
        THEN [raised |-> FALSE,
              request |-> [method |-> "POST", url_flag_key |-> flag_key,
                           body |-> goff_request],
              exc |-> Blank]
        ELSE [raised |-> TRUE,
              request |-> [method |-> "POST", url_flag_key |-> flag_key,
                           body |-> goff_request],
              exc |-> Raise("TypeError", "not JSON serializable", NoKey, Unset)]

\* A client that sends the request again after a transport failure.
DispatchRetrying(request, rem) ==
    IF rem.transport = "error"
    THEN [requests |-> <<request, request>>, raised |-> TRUE,
          exc |-> Raise("MaxRetryError", "connection refused", NoKey, Unset),
          response |-> [status |-> 0, data |-> Malformed]]
    ELSE [requests |-> <<request>>, raised |-> FALSE, exc |-> Blank,
          response |-> [status |-> rem.status, data |-> rem.data]]

\* Line 137: self._http_client.request(...), called once; retries = Retry(0).
Dispatch(request, rem) ==
    IF rem.transport = "error"
    THEN [requests |-> <<request>>, raised |-> TRUE,
          exc |-> Raise("MaxRetryError", "connection refused", NoKey, Unset),
          response |-> [status |-> 0, data |-> Malformed]]
    ELSE [requests |-> <<request>>, raised |-> FALSE, exc |-> Blank,
          response |-> [status |-> rem.status, data |-> rem.data]]

\* The two status tests in the other order.
CheckStatusSwapped(status, flag_key) ==
    IF status >= HTTP_BAD_REQUEST
    THEN Raise("GeneralError",
               "impossible to contact GO Feature Flag relay proxy instance",
               NoKey, Unset)
    ELSE IF status = HTTP_NOT_FOUND
    THEN FlagNotFoundError(flag_key)
    ELSE Blank

\* Lines 146-154.
CheckStatus(status, flag_key) ==
    IF status = HTTP_NOT_FOUND
    THEN FlagNotFoundError(flag_key)
    ELSE IF status >= HTTP_BAD_REQUEST
    THEN Raise("GeneralError",
               "impossible to contact GO Feature Flag relay proxy instance",
               NoKey, Unset)
    ELSE Blank

(***************************************************************************)
(* The typed decode of the value field against the declared type, as the   *)
(* field validators of the generic response model perform it.  A value of  *)
(* the declared kind is kept.  Scalars convert: a float is truncated to an *)
(* integer when an integer is declared (the conversion line 162 speaks     *)
(* of), an integer is widened when a float is declared, a boolean counts   *)
(* as the number 0 or 1 and the numbers 0 and 1 as booleans, and a number  *)
(* or boolean is rendered as text when a string is declared.  The strings  *)
(* of Strs are words, not numerals: they convert to nothing.  null, a      *)
(* missing field, a container where a scalar is declared and a scalar      *)
(* where an object is declared do not validate.                            *)
(***************************************************************************)
StrOfInt(n) == Val("str", 100 + n)
StrOfFloat(tenths) == Val("str", 200 + tenths)
StrOfBool(b) == Val("str", 300 + b)

Validate(original_type, raw) ==
    CASE raw.k \in KindsOf(original_type) -> [ok |-> TRUE, value |-> raw]
      [] original_type = "int" /\ raw.k = "float" ->
            [ok |-> TRUE, value |-> Val("int", raw.v \div 10)]
      [] original_type = "int" /\ raw.k = "bool" ->
            [ok |-> TRUE, value |-> Val("int", raw.v)]
      [] original_type = "float" /\ raw.k = "int" ->
            [ok |-> TRUE, value |-> Val("float", raw.v * 10)]
      [] original_type = "float" /\ raw.k = "bool" ->
            [ok |-> TRUE, value |-> Val("float", raw.v * 10)]
      [] original_type = "bool" /\ raw.k = "int" /\ raw.v \in {0, 1} ->
            [ok |-> TRUE, value |-> Val("bool", raw.v)]
      [] original_type = "bool" /\ raw.k = "float" /\ raw.v \in {0, 10} ->
            [ok |-> TRUE, value |-> Val("bool", raw.v \div 10)]
      [] original_type = "str" /\ raw.k = "int" ->
            [ok |-> TRUE, value |-> StrOfInt(raw.v)]
      [] original_type = "str" /\ raw.k = "float" ->
            [ok |-> TRUE, value |-> StrOfFloat(raw.v)]
      [] original_type = "str" /\ raw.k = "bool" ->
            [ok |-> TRUE, value |-> StrOfBool(raw.v)]
      [] OTHER -> [ok |-> FALSE, value |-> NoValue]

\* Lines 156-158.  parse_raw reports bytes that are not JSON as a
\* ValidationError too (pydantic wraps the JSON error).
parse_raw(original_type, data) ==
    IF ~data.wellformed
    THEN Raise("ValidationError", "invalid json", NoKey, Unset)
    ELSE LET v == Validate(original_type, data.value)
         IN  IF ~v.ok
             THEN Raise("ValidationError", "validation error", NoKey, Unset)
             ELSE [tag |-> "parsed", value |-> v.value, reason |-> data.reason,
                   errorCode |-> data.errorCode,
                   variationType |-> data.variationType]

\* The guard left out.
IntegerGuardAbsent(original_type, data, flag_key) == Blank

\* Lines 160-164: json.loads(response.data).get("value") must be a python int.
IntegerGuard(original_type, data, flag_key) ==
    IF original_type = "int" /\ data.value.k # "int"
    THEN TypeMismatchError(flag_key)
    ELSE Blank

\* The response's value handed back for a disabled flag.
DisabledDetailsFromResponse(flag_key, default_value, response_flag_evaluation) ==
    FlagEvaluationDetails(flag_key, response_flag_evaluation.value, Unset,
                          "DISABLED")

\* Lines 166-171.
DisabledDetails(flag_key, default_value, response_flag_evaluation) ==
    FlagEvaluationDetails(flag_key, default_value, Unset, "DISABLED")

\* The errorCode test left out.
ErrorCodeCheckAbsent(flag_key, response_flag_evaluation) == Blank

\* Lines 173-176.
ErrorCodeCheck(flag_key, response_flag_evaluation) ==
    IF response_flag_evaluation.errorCode = "FLAG_NOT_FOUND"
    THEN FlagNotFoundError(flag_key)
    ELSE Blank

\* The caller's default handed back for a resolved flag.
ResolvedDetailsDefault(flag_key, default_value, response_flag_evaluation) ==
    FlagEvaluationDetails(flag_key, default_value,
                          response_flag_evaluation.variationType,
                          response_flag_evaluation.reason)

\* Lines 178-183.
ResolvedDetails(flag_key, default_value, response_flag_evaluation) ==
    FlagEvaluationDetails(flag_key, response_flag_evaluation.value,
                          response_flag_evaluation.variationType,
                          response_flag_evaluation.reason)

\* Lines 146-183: what the try block does with a response.
Interpret(original_type, flag_key, default_value, response) ==
    LET st == CheckStatus(response.status, flag_key)
        rfe == parse_raw(original_type, response.data)
        guard == IntegerGuard(original_type, response.data, flag_key)
    IN  IF st.tag # "none" THEN st
        ELSE IF rfe.tag = "raised" THEN rfe
        ELSE IF guard.tag # "none" THEN guard
        ELSE IF rfe.reason = "DISABLED"
        THEN DisabledDetails(flag_key, default_value, rfe)
        ELSE LET nf == ErrorCodeCheck(flag_key, rfe)
             IN  IF nf.tag # "none" THEN nf
                 ELSE ResolvedDetails(flag_key, default_value, rfe)

\* The last clause re-raising what it caught.
ExceptClausesReraise(result, flag_key) ==
    IF result.tag = "details" THEN result
    ELSE IF result.exc = "ValidationError" THEN TypeMismatchError(flag_key)
    ELSE result

\* Lines 184-193.
ExceptClauses(result, flag_key) ==
    IF result.tag = "details" THEN result
    ELSE IF result.exc = "ValidationError" THEN TypeMismatchError(flag_key)
    ELSE IF result.exc \in OpenFeatureErrors THEN result
    ELSE Raise("GeneralError", "unexpected error while evaluating flag {}: {}",
               flag_key, result.text)

\* Lines 130-193.
generic_go_feature_flag_resolver(original_type, flag_key, default_value, evaluation_context, rem) ==
    LET built == BuildRequest(flag_key, default_value, evaluation_context)
        sent == Dispatch(built.request, rem)
        result ==
            IF built.raised THEN built.exc
            ELSE IF sent.raised THEN sent.exc
            ELSE Interpret(original_type, flag_key, default_value, sent.response)
    IN  [requests |-> IF built.raised THEN <<>> ELSE sent.requests,
         outcome |-> ExceptClauses(result, flag_key)]


NoCall ==
    [method |-> "none", original_type |-> "none", flag_key |-> NoKey,
     default_value |-> NoValue, evaluation_context |-> NoContext]

\* Line 203-207.
default_urllib3_poolmanager == "PoolManager(num_pools=100, timeout=10, retries=0)"

\* Lines 43-55: the state after construction, facing some relay proxy.
Init ==
    /\ options = [endpoint |-> "http://localhost:1031",
                  urllib3PoolManager |-> "None"]
    /\ http_client = IF options.urllib3PoolManager # "None"
                     THEN options.urllib3PoolManager
                     ELSE default_urllib3_poolmanager
    /\ remote \in Remotes
    /\ call = NoCall
    /\ requests = <<>>
    /\ outcome = Blank

\* One whole invocation of the generic resolver through a public operation.
Invoke(method, original_type, flag_key, default_value, evaluation_context) ==
    LET r == generic_go_feature_flag_resolver(original_type, flag_key, default_value, evaluation_context, remote)
    IN  /\ call' = [method |-> method, original_type |-> original_type,
                    flag_key |-> flag_key, default_value |-> default_value,
                    evaluation_context |-> evaluation_context]
        /\ requests' = r.requests
        /\ outcome' = r.outcome
        /\ UNCHANGED <<options, http_client, remote>>

\* Lines 63-71.
resolve_boolean_details ==
    \E flag_key \in FlagKeys, default_value \in Bools, ctx \in Contexts :
        Invoke("resolve_boolean_details", "bool", flag_key, default_value, ctx)

\* Lines 73-81.
resolve_string_details ==
    \E flag_key \in FlagKeys, default_value \in Strs, ctx \in Contexts :
        Invoke("resolve_string_details", "str", flag_key, default_value, ctx)

\* The integer operation delegating with the float type.
resolve_integer_details_as_float ==
    \E flag_key \in FlagKeys, default_value \in Ints, ctx \in Contexts :
        Invoke("resolve_integer_details", "float", flag_key, default_value, ctx)

\* Lines 83-91.
resolve_integer_details ==
    \E flag_key \in FlagKeys, default_value \in Ints, ctx \in Contexts :
        Invoke("resolve_integer_details", "int", flag_key, default_value, ctx)

\* Lines 93-101.
resolve_float_details ==
    \E flag_key \in FlagKeys, default_value \in Floats, ctx \in Contexts :
        Invoke("resolve_float_details", "float", flag_key, default_value, ctx)

\* Lines 103-111: the default is a dict, which may hold anything.
resolve_object_details ==
    \E flag_key \in FlagKeys, default_value \in Dicts \cup {Val("dictx", 0)},
       ctx \in Contexts :
        Invoke("resolve_object_details", "object", flag_key, default_value, ctx)

Next ==
    \/ resolve_boolean_details
    \/ resolve_string_details
    \/ resolve_integer_details
    \/ resolve_float_details
    \/ resolve_object_details

Spec == Init /\ [][Next]_vars


(***************************************************************************)
(* Properties                                                              *)
(***************************************************************************)
Called == call.method # "none"

\* The latest invocation sent its request and the relay proxy answered it.
Received == Called /\ Len(requests) >= 1 /\ remote.transport = "ok"

Evaluated == Received /\ remote.status < HTTP_BAD_REQUEST

\* The typed decode of the answer's body against the declared type succeeds.
Decodes ==
    /\ remote.data.wellformed
    /\ Validate(call.original_type, remote.data.value).ok

DecodedValue == Validate(call.original_type, remote.data.value).value

\* The raw JSON value passes the integer guard.
RawIntegerIfInt == call.original_type = "int" => remote.data.value.k = "int"

DisabledResult ==
    outcome = FlagEvaluationDetails(call.flag_key, call.default_value, Unset, "DISABLED")

\* C1 as stated: a response with reason DISABLED and status below 400 gives
\* the caller's default with reason DISABLED and no variant, whatever the
\* response's value field contains.
C1_Original ==
    (Evaluated /\ remote.data.wellformed /\ remote.data.reason = "DISABLED")
        => DisabledResult

\* C1 amended: a response with status below 400 and reason DISABLED whose
\* body decodes against the declared kind (and, for the integer kind, whose
\* raw value is a JSON integer) gives the caller's default unchanged, reason
\* DISABLED and no variant; the decoded value and the errorCode play no part.
C1_DisabledReturnsDefault ==
    (Evaluated /\ Decodes /\ RawIntegerIfInt /\ remote.data.reason = "DISABLED")
        => DisabledResult

C1_Witness ==
    /\ Evaluated /\ Decodes /\ RawIntegerIfInt
    /\ remote.data.reason = "DISABLED"
    /\ remote.data.errorCode = "FLAG_NOT_FOUND"
    /\ DecodedValue # call.default_value
    /\ DisabledResult

\* C2 as stated: a status >= 400 other than 404 raises General and the
\* message of the error mentions the flag key.
C2_GeneralNamesFlagKey ==
    (Received /\ remote.status >= HTTP_BAD_REQUEST /\ remote.status # HTTP_NOT_FOUND)
        => /\ outcome.tag = "raised"
           /\ outcome.exc = "GeneralError"
           /\ outcome.msg_key = call.flag_key

\* C3: a response with status 404 raises NotFound naming the flag key, for
\* every declared kind, default and body; it is not re-wrapped as General.
C3_Status404NotFound ==
    (Received /\ remote.status = HTTP_NOT_FOUND)
        => outcome = FlagNotFoundError(call.flag_key)

C3_Witness ==
    /\ Received /\ remote.status = HTTP_NOT_FOUND
    /\ remote.data.wellformed /\ remote.data.reason = "DISABLED"
    /\ call.original_type = "int" /\ remote.data.value.k = "str"
    /\ outcome.exc = "FlagNotFoundError" /\ outcome.msg_key = call.flag_key

\* C4 as stated, in the case it names: a status 200 response whose body has
\* errorCode FLAG_NOT_FOUND raises NotFound whatever value, reason and
\* variationType are.
C4_Original ==
    (Received /\ remote.status = 200 /\ remote.data.wellformed
        /\ remote.data.errorCode = "FLAG_NOT_FOUND")
        => outcome = FlagNotFoundError(call.flag_key)

\* C4 amended: a response with status below 400 whose body decodes against
\* the declared kind (for the integer kind with a raw JSON integer), whose
\* reason is not DISABLED and whose errorCode is FLAG_NOT_FOUND raises
\* NotFound naming the flag key.
C4_ErrorCodeNotFound ==
    (Evaluated /\ Decodes /\ RawIntegerIfInt /\ remote.data.reason # "DISABLED"
        /\ remote.data.errorCode = "FLAG_NOT_FOUND")
        => outcome = FlagNotFoundError(call.flag_key)

C4_Witness ==
    /\ Evaluated /\ remote.status = 200 /\ Decodes /\ RawIntegerIfInt
    /\ remote.data.reason # "DISABLED"
    /\ remote.data.errorCode = "FLAG_NOT_FOUND"
    /\ outcome.exc = "FlagNotFoundError"

\* C5: for the integer kind a response with status below 400 whose raw JSON
\* value is not a JSON integer raises TypeMismatch, also when the typed
\* decode succeeds; the guard applies to the integer kind only (a float
\* declared kind accepts a JSON integer).
C5_IntegerGuard ==
    /\ (Evaluated /\ remote.data.wellformed /\ call.original_type = "int"
            /\ remote.data.value.k # "int")
        => outcome = TypeMismatchError(call.flag_key)
    /\ (Evaluated /\ Decodes /\ call.original_type # "int")
        => outcome.exc # "TypeMismatchError"

C5_Witness ==
    /\ Evaluated /\ call.original_type = "int"
    /\ remote.data.value.k = "float" /\ Decodes
    /\ outcome.exc = "TypeMismatchError"

ResolvedResult ==
    outcome = FlagEvaluationDetails(call.flag_key, DecodedValue,
                                    remote.data.variationType, remote.data.reason)

\* C6 as stated: status in [200,400), body decodes against the declared kind,
\* reason not DISABLED, errorCode not FLAG_NOT_FOUND: the result carries the
\* key, the decoded value, the decoded variationType and the decoded reason.
C6_Original ==
    (Received /\ remote.status >= 200 /\ remote.status < HTTP_BAD_REQUEST
        /\ Decodes /\ remote.data.reason # "DISABLED"
        /\ remote.data.errorCode # "FLAG_NOT_FOUND")
        => ResolvedResult

\* C6 amended: the same, provided that for the integer kind the raw JSON
\* value is a JSON integer.
C6_ResolvedResult ==
    (Received /\ remote.status >= 200 /\ remote.status < HTTP_BAD_REQUEST
        /\ Decodes /\ RawIntegerIfInt /\ remote.data.reason # "DISABLED"
        /\ remote.data.errorCode # "FLAG_NOT_FOUND")
        => ResolvedResult

C6_Witness ==
    /\ Evaluated /\ Decodes /\ RawIntegerIfInt
    /\ remote.data.reason = "TARGETING_MATCH"
    /\ remote.data.errorCode = Unset
    /\ remote.data.variationType = "v1"
    /\ DecodedValue # call.default_value
    /\ ResolvedResult

\* C7: every invocation ends in a complete result or in one raised error of
\* kind NotFound, TypeMismatch or General; a result is returned only for an
\* answered request with status below 400 and a decoded body, and a raised
\* error carries no value.
C7_FourOutcomes ==
    Called =>
        \/ /\ outcome.tag = "details"
           /\ Evaluated /\ Decodes /\ RawIntegerIfInt
           /\ outcome.flag_key = call.flag_key
           /\ outcome.reason # Unset
           /\ \/ DisabledResult
              \/ ResolvedResult /\ remote.data.errorCode # "FLAG_NOT_FOUND"
        \/ /\ outcome.tag = "raised"
           /\ outcome.exc \in OpenFeatureErrors
           /\ outcome.value = NoValue

C7_Witness ==
    /\ Called /\ remote.transport = "error" /\ Len(requests) = 1
    /\ outcome.tag = "raised" /\ outcome.exc = "GeneralError"

ProviderUnchanged ==
    /\ options = [endpoint |-> "http://localhost:1031", urllib3PoolManager |-> "None"]
    /\ http_client = default_urllib3_poolmanager

\* C8 as stated: every invocation issues exactly one POST, also when
\* building the user or the request fails, and leaves the provider's fields
\* unchanged.
C8_Original == Called => (Len(requests) = 1 /\ ProviderUnchanged)

\* C8 amended: an invocation issues at most one POST: exactly one, for the
\* requested flag key, when the request could be built, whatever the answer
\* (failure status or transport exception: no retry), and none when building
\* the request fails, which is raised as General; the provider's fields are
\* unchanged.
C8_AtMostOnePost ==
    /\ ProviderUnchanged
    /\ Called =>
        /\ Len(requests) <= 1
        /\ call.default_value.k # "dictx" =>
            /\ Len(requests) = 1
            /\ requests[1].method = "POST"
            /\ requests[1].url_flag_key = call.flag_key
            /\ requests[1].body.defaultValue = call.default_value
        /\ call.default_value.k = "dictx" =>
            /\ Len(requests) = 0
            /\ outcome.exc = "GeneralError"

C8_Witness ==
    /\ Called /\ remote.transport = "error"
    /\ Len(requests) = 1 /\ requests[1].method = "POST"
    /\ outcome.tag = "raised"

\* C9 as stated: a transport-level exception or a body that is malformed
\* JSON raises General, with the flag key and the text of the cause.
C9_UnclassifiedIsGeneral ==
    (Called /\ Len(requests) >= 1
        /\ \/ remote.transport = "error"
           \/ remote.transport = "ok" /\ remote.status < HTTP_BAD_REQUEST
                /\ ~remote.data.wellformed)
        => /\ outcome.tag = "raised"
           /\ outcome.exc = "GeneralError"
           /\ outcome.msg_key = call.flag_key
           /\ outcome.cause # Unset

\* The kinds of value the public operation declares for its result.
DeclaredKinds(method) ==
    CASE method = "resolve_boolean_details" -> {"bool"}
      [] method = "resolve_string_details" -> {"str"}
      [] method = "resolve_integer_details" -> {"int"}
      [] method = "resolve_float_details" -> {"float"}
      [] method = "resolve_object_details" -> {"dict", "list"}
      [] OTHER -> {}

\* C10: in every result returned by a resolve_*_details operation, resolved
\* or DISABLED, the value has exactly the kind the operation declares.
C10_ValueHasDeclaredKind ==
    (Called /\ outcome.tag = "details")
        => outcome.value.k \in DeclaredKinds(call.method)

C10_Witness ==
    /\ Called /\ outcome.tag = "details"
    /\ call.method = "resolve_float_details"
    /\ remote.data.value.k = "int"
    /\ outcome.value.k = "float"
    /\ outcome.reason # "DISABLED"

====
